---------------------------- MODULE Spec2Model ----------------------------
(***************************************************************************)
(* Model of the nitrate / cancer-rate analysis server:                     *)
(*   src/processing/pipeline.py  (ProjectData: loading, IDW grid, zone     *)
(*                                rasterization, zonal means, OLS, outputs) *)
(*   src/app.py                  (get_project_data, api_run,                *)
(*                                api_sensitivity under the threaded server)*)
(*                                                                         *)
(* Numbers.  Coordinates are integers; a cell centre lies at a half-cell   *)
(* offset, so centres are kept doubled (xs2 = 2*xs).  A float is a pair    *)
(* <<num, den>>: den > 0 a reduced fraction, <<0,0>> NaN, <<1,0>> +inf,    *)
(* <<-1,0>> -inf.  An attribute read from a feature may also be None       *)
(* (<<0,-1>>) or a non-numeric string (<<0,-2>>).  The IDW exponent k is   *)
(* an even integer, so that d^k is a rational function of the squared      *)
(* distance.                                                               *)
(***************************************************************************)
EXTENDS Integers, Sequences, FiniteSets, TLC

(* ------------------------------ floats -------------------------------- *)

NaN == <<0, 0>>
PosInf == <<1, 0>>
None == <<0, -1>>
NotNumeric == <<0, -2>>

Abs(a) == IF a < 0 THEN -a ELSE a

Max(a, b) == IF a >= b THEN a ELSE b

RECURSIVE Gcd(_, _)
Gcd(a, b) == IF b = 0 THEN a ELSE Gcd(b, a % b)

\* the reduced fraction n/d, d # 0
Frac(n, d) ==
    LET g == Gcd(Abs(n), Abs(d))
        s == IF d < 0 THEN -1 ELSE 1
    IN  <<(s * n) \div g, (s * d) \div g>>

FInt(n) == <<n, 1>>

IsFinite(f) == f[2] > 0

\* pandas' isna: None and NaN are missing, an infinity is not
IsNA(f) == f = NaN \/ f = None

\* sums and products of finite values (an operand that is not finite gives
\* NaN); the common denominator is the least one, to keep the integers small
FAdd(f, g) ==
    IF ~IsFinite(f) \/ ~IsFinite(g) THEN NaN
    ELSE LET l == (f[2] \div Gcd(f[2], g[2])) * g[2]
         IN  Frac(f[1] * (l \div f[2]) + g[1] * (l \div g[2]), l)

FNeg(f) == <<-f[1], f[2]>>

FSub(f, g) == FAdd(f, FNeg(g))

FMul(f, g) ==
    IF ~IsFinite(f) \/ ~IsFinite(g) THEN NaN
    ELSE LET a == Frac(f[1], g[2])
             b == Frac(g[1], f[2])
         IN  <<a[1] * b[1], a[2] * b[2]>>

\* IEEE division: 0/0 is NaN, x/0 an infinity
FDiv(f, g) ==
    IF ~IsFinite(f) \/ ~IsFinite(g) THEN NaN
    ELSE IF g[1] = 0 THEN (IF f[1] = 0 THEN NaN
                           ELSE IF f[1] > 0 THEN PosInf ELSE <<-1, 0>>)
    ELSE FMul(f, IF g[1] > 0 THEN <<g[2], g[1]>> ELSE <<-g[2], -g[1]>>)

FLe(f, g) == f[1] * g[2] <= g[1] * f[2]

RECURSIVE FPow(_, _)
FPow(f, e) == IF e = 0 THEN FInt(1) ELSE FMul(f, FPow(f, e - 1))

RECURSIVE FSum(_)
FSum(s) == IF s = <<>> THEN FInt(0) ELSE FAdd(Head(s), FSum(Tail(s)))

\* a variant of CeilDiv that rounds down: int(a / float(b)) for a >= 0, b > 0
FloorDiv(a, b) == a \div b

\* int(math.ceil(a / float(b))) for a >= 0 and b # 0
CeilDiv(a, b) == IF b > 0 THEN -((-a) \div b) ELSE -(a \div (-b))


(* --------------------------- the shapefiles --------------------------- *)

\* metres per unit of the data frame: TF_DATA_TO_M scales a coordinate,
\* TF_M_TO_LL scales it back to the display frame
Scale == 2

TF_DATA_TO_M(v) == v * Scale

TF_M_TO_LL(v) == v \div Scale

\* a well feature: its point (data frame), whether its geometry is empty, and
\* its nitr_ran attribute
Well(x, y, v) == [x |-> x, y |-> y, empty |-> FALSE, v |-> v]

\* a tract feature: the id attributes ("" when absent or falsy), the rate
\* attributes, and its polygon, a rectangle <<x0, y0, x1, y1>> (data frame)
Tract(g10, g, canrate, cases, pop, rect) ==
    [GEOID10 |-> g10, GEOID |-> g, canrate |-> canrate, cases |-> cases,
     pop |-> pop, rect |-> rect]

ThreeWells ==
    << Well(0, 0, FInt(1)), Well(1, 1, None), Well(1, 1, FInt(3)),
       Well(2, 0, NotNumeric), Well(3, 0, FInt(5)), Well(2, 1, PosInf) >>

\* the directory static/shapefiles, as the server may find it
Shapefiles ==
    [ full |->
        [wellsFile |-> TRUE, tractsFile |-> TRUE, wells |-> ThreeWells,
         tracts |-> << Tract("A", "", Frac(1, 4), None, None, <<0, 0, 1, 1>>),
                       Tract("", "", FInt(9), None, None, <<0, 0, 3, 1>>),
                       Tract("", "B", None, FInt(1), FInt(2), <<1, 0, 2, 1>>),
                       Tract("C", "", Frac(3, 4), None, None, <<2, 0, 3, 1>>) >>],
      raw |->
        [wellsFile |-> TRUE, tractsFile |-> TRUE, wells |-> ThreeWells,
         tracts |-> << Tract("A", "", FInt(40), None, None, <<0, 0, 1, 1>>),
                       Tract("B", "", FInt(45), None, None, <<1, 0, 2, 1>>),
                       Tract("C", "", FInt(47), None, None, <<2, 0, 3, 1>>) >>],
      infrate |->
        [wellsFile |-> TRUE, tractsFile |-> TRUE, wells |-> ThreeWells,
         tracts |-> << Tract("A", "", Frac(1, 4), None, None, <<0, 0, 1, 1>>),
                       Tract("B", "", PosInf, None, None, <<1, 0, 2, 1>>),
                       Tract("C", "", Frac(3, 4), None, None, <<2, 0, 3, 1>>) >>],
      onerate |->
        [wellsFile |-> TRUE, tractsFile |-> TRUE, wells |-> ThreeWells,
         tracts |-> << Tract("A", "", Frac(1, 4), None, None, <<0, 0, 1, 1>>),
                       Tract("B", "", None, FInt(1), FInt(0), <<1, 0, 2, 1>>),
                       Tract("C", "", NotNumeric, None, None, <<2, 0, 3, 1>>) >>],
      norate |->
        [wellsFile |-> TRUE, tractsFile |-> TRUE, wells |-> ThreeWells,
         tracts |-> << Tract("A", "", None, None, None, <<0, 0, 1, 1>>),
                       Tract("B", "", None, NotNumeric, FInt(2), <<1, 0, 3, 1>>) >>],
      nowells |->
        [wellsFile |-> TRUE, tractsFile |-> TRUE,
         wells |-> << Well(1, 1, None), Well(2, 0, NotNumeric) >>,
         tracts |-> << Tract("A", "", Frac(1, 4), None, None, <<0, 0, 1, 1>>) >>],
      notracts |->
        [wellsFile |-> TRUE, tractsFile |-> TRUE, wells |-> ThreeWells,
         tracts |-> << Tract("", "", Frac(1, 4), None, None, <<0, 0, 1, 1>>) >>],
      missing |->
        [wellsFile |-> FALSE, tractsFile |-> TRUE, wells |-> <<>>,
         tracts |-> << Tract("A", "", Frac(1, 4), None, None, <<0, 0, 1, 1>>) >>] ]

(* ------------------------------ loading ------------------------------- *)

\* float(v): None and a non-numeric string do not convert
FloatOK(v) == v[2] >= 0

\* a variant of WellKept without the math.isfinite test
WellKeptAnyFloat(f) == ~f.empty /\ f.v # None /\ FloatOK(f.v)

\* the features _load_wells keeps: geometry not empty, nitr_ran present,
\* numeric and finite
WellKept(f) == ~f.empty /\ f.v # None /\ FloatOK(f.v) /\ IsFinite(f.v)

RECURSIVE KeptWells(_)
KeptWells(feats) ==
    IF feats = <<>> THEN <<>>
    ELSE IF WellKept(Head(feats))
         THEN <<[x |-> TF_DATA_TO_M(Head(feats).x),
                 y |-> TF_DATA_TO_M(Head(feats).y),
                 v |-> Head(feats).v]>> \o KeptWells(Tail(feats))
         ELSE KeptWells(Tail(feats))

\* _load_wells: (xy_m, vals), or the exception it raises
load_wells(shp) ==
    IF ~shp.wellsFile THEN [exc |-> "FileNotFoundError", wells |-> <<>>]
    ELSE IF KeptWells(shp.wells) = <<>> THEN [exc |-> "RuntimeError", wells |-> <<>>]
    ELSE [exc |-> "", wells |-> KeptWells(shp.wells)]

\* props.get(GEOID10) or props.get("GEOID") or ...: the first truthy id
ResolveGid(f) == IF f.GEOID10 # "" THEN f.GEOID10 ELSE f.GEOID

\* the outcome rate of a tract feature: canrate if present, else cases/pop
\* when both convert and pop > 0, else None; then coerced to float or None
ResolveRate(f) ==
    LET derived ==
            IF f.cases # None /\ f.pop # None /\ FloatOK(f.cases) /\ FloatOK(f.pop)
               /\ f.pop # NaN /\ f.pop[1] > 0
            THEN (IF f.pop = PosInf THEN (IF IsFinite(f.cases) THEN FInt(0) ELSE NaN)
                  ELSE IF IsFinite(f.cases) THEN FDiv(f.cases, f.pop) ELSE f.cases)
            ELSE None
        rate == IF f.canrate # None THEN f.canrate ELSE derived
    IN  IF FloatOK(rate) THEN rate ELSE None

RectToMeters(r) ==
    <<TF_DATA_TO_M(r[1]), TF_DATA_TO_M(r[2]), TF_DATA_TO_M(r[3]), TF_DATA_TO_M(r[4])>>

RECURSIVE KeptTracts(_)
KeptTracts(feats) ==
    IF feats = <<>> THEN <<>>
    ELSE IF ResolveGid(Head(feats)) # ""
         THEN <<[gid |-> ResolveGid(Head(feats)),
                 rate |-> ResolveRate(Head(feats)),
                 poly |-> RectToMeters(Head(feats).rect)]>> \o KeptTracts(Tail(feats))
         ELSE KeptTracts(Tail(feats))

\* rate_by_gid[gid] = rate, assigned in feature order: the last one stays
RateByGid(zones) ==
    [g \in {zones[i].gid : i \in DOMAIN zones} |->
        LET last == CHOOSE i \in DOMAIN zones :
                        /\ zones[i].gid = g
                        /\ \A j \in DOMAIN zones : zones[j].gid = g => j <= i
        IN  zones[last].rate]

SetMin(S) == CHOOSE a \in S : \A b \in S : a <= b

SetMax(S) == CHOOSE a \in S : \A b \in S : a >= b

\* unary_union(polys).bounds = (minx, miny, maxx, maxy)
UnionBounds(polys) ==
    << SetMin({polys[i][1] : i \in DOMAIN polys}),
       SetMin({polys[i][2] : i \in DOMAIN polys}),
       SetMax({polys[i][3] : i \in DOMAIN polys}),
       SetMax({polys[i][4] : i \in DOMAIN polys}) >>

\* _load_tracts: (polys_m, tract_ids, rate_by_gid), or the exception
load_tracts(shp) ==
    IF ~shp.tractsFile THEN [exc |-> "DriverError", zones |-> <<>>]
    ELSE [exc |-> "", zones |-> KeptTracts(shp.tracts)]


(* ----------------------------- ProjectData ---------------------------- *)

\* names of the files of the output directory
BoundsJson == <<"bounds.json", 0>>

\* f"{float(k):.1f}": the exponent in tenths
Tag(k) == 10 * k

PngName(k) == <<"nitrate_k.png", Tag(k)>>

CsvName(k) == <<"tract_table_k.csv", Tag(k)>>

GeoJsonName(k) == <<"tracts_k.geojson", Tag(k)>>

SensName(neighbors, cell_size) == <<"sensitivity.csv", neighbors, cell_size>>

\* bounds_ll: [sw_lon, sw_lat, ne_lon, ne_lat]
bounds_ll(pd) ==
    << TF_M_TO_LL(pd.union_bounds[1]), TF_M_TO_LL(pd.union_bounds[2]),
       TF_M_TO_LL(pd.union_bounds[3]), TF_M_TO_LL(pd.union_bounds[4]) >>

NoData ==
    [wells_xy_m |-> <<>>, wells_vals |-> <<>>, kdtree |-> <<>>,
     tract_polys_m |-> <<>>, tract_ids |-> <<>>, rate_by_gid |-> <<>>,
     union_bounds |-> <<0, 0, 0, 0>>]

\* a variant of WritesBounds: bounds.json is written at every construction
WritesBoundsAlways(fs) == TRUE

\* whether __init__ writes bounds.json: only when the file does not exist
WritesBounds(fs) == BoundsJson \notin DOMAIN fs

\* ProjectData.__init__ on the shapefiles shp with the output directory
\* holding the files fs: the exception raised ("" if none), the object, and
\* the files afterwards
ProjectDataInit(shp, fs) ==
    LET w == load_wells(shp)
        t == load_tracts(shp)
        zones == t.zones
        polys == [i \in DOMAIN zones |-> zones[i].poly]
        pd == [wells_xy_m |-> [i \in DOMAIN w.wells |-> <<w.wells[i].x, w.wells[i].y>>],
               wells_vals |-> [i \in DOMAIN w.wells |-> w.wells[i].v],
               kdtree |-> [i \in DOMAIN w.wells |-> <<w.wells[i].x, w.wells[i].y>>],
               tract_polys_m |-> polys,
               tract_ids |-> [i \in DOMAIN zones |-> zones[i].gid],
               rate_by_gid |-> RateByGid(zones),
               union_bounds |-> UnionBounds(polys)]
    IN  IF w.exc # "" THEN [exc |-> w.exc, pd |-> NoData, files |-> fs]
        ELSE IF t.exc # "" THEN [exc |-> t.exc, pd |-> NoData, files |-> fs]
        ELSE IF zones = <<>> THEN [exc |-> "RuntimeError", pd |-> NoData, files |-> fs]
        ELSE [exc |-> "", pd |-> pd,
              files |-> IF WritesBounds(fs)
                        THEN [n \in DOMAIN fs \cup {BoundsJson} |->
                                 IF n = BoundsJson THEN bounds_ll(pd) ELSE fs[n]]
                        ELSE fs]

(* -------------------------------- IDW --------------------------------- *)

\* width (or height) of the grid over an extent of length ext
GridCount(ext, cell_size) == Max(1, CeilDiv(ext, cell_size))

\* cell centres, doubled: xs = minx + (arange(width) + 0.5) * cell_size
CentresX2(minx, width, cell_size) ==
    [c \in 1..width |-> 2 * minx + (2 * c - 1) * cell_size]

\* ys = maxy - (arange(height) + 0.5) * cell_size
CentresY2(maxy, height, cell_size) ==
    [r \in 1..height |-> 2 * maxy - (2 * r - 1) * cell_size]

\* four times the squared distance from a centre to a well
Dist2(xy, cx2, cy2) ==
    (cx2 - 2 * xy[1]) * (cx2 - 2 * xy[1]) + (cy2 - 2 * xy[2]) * (cy2 - 2 * xy[2])

\* kdtree.query(pts, k=m): the m nearest wells, nearest first
RECURSIVE Nearest(_, _, _, _, _)
Nearest(tree, cx2, cy2, m, taken) ==
    IF m = 0 THEN <<>>
    ELSE LET rest == DOMAIN tree \ taken
             i == CHOOSE a \in rest : \A b \in rest :
                    \/ Dist2(tree[a], cx2, cy2) < Dist2(tree[b], cx2, cy2)
                    \/ Dist2(tree[a], cx2, cy2) = Dist2(tree[b], cx2, cy2) /\ a <= b
         IN  <<i>> \o Nearest(tree, cx2, cy2, m - 1, taken \cup {i})

\* w = 1 / max(d, 1) ** k, with D = 4 d^2 and k even
Weight(D, k) ==
    IF k >= 0 THEN FPow(Frac(4, Max(D, 4)), k \div 2)
    ELSE FPow(Frac(Max(D, 4), 4), (-k) \div 2)

\* pred = (w * z).sum() / max(w.sum(), 1e-12); within the coordinates of
\* the model w.sum() is far above 1e-12
Pred(pd, cx2, cy2, k, neighbors) ==
    LET idxs == Nearest(pd.kdtree, cx2, cy2, neighbors, {})
        w == [j \in DOMAIN idxs |-> Weight(Dist2(pd.kdtree[idxs[j]], cx2, cy2), k)]
        wz == [j \in DOMAIN idxs |-> FMul(w[j], pd.wells_vals[idxs[j]])]
    IN  FDiv(FSum(wz), FSum(w))

NoGrid == [exc |-> "", raster |-> <<>>, xs |-> <<>>, ys |-> <<>>]

\* idw_grid: (raster, xs, ys), or the exception raised
idw_grid(pd, k, neighbors, cell_size) ==
    IF cell_size = 0 THEN [NoGrid EXCEPT !.exc = "ZeroDivisionError"]
    ELSE
    LET width == GridCount(pd.union_bounds[3] - pd.union_bounds[1], cell_size)
        height == GridCount(pd.union_bounds[4] - pd.union_bounds[2], cell_size)
        xs == CentresX2(pd.union_bounds[1], width, cell_size)
        ys == CentresY2(pd.union_bounds[4], height, cell_size)
    IN  IF neighbors < 1 THEN [NoGrid EXCEPT !.exc = "ValueError"]
        ELSE IF neighbors > Len(pd.wells_vals)
             THEN [NoGrid EXCEPT !.exc = "IndexError"]
        ELSE [exc |-> "",
              raster |-> [r \in 1..height |-> [c \in 1..width |->
                            Pred(pd, xs[c], ys[r], k, neighbors)]],
              xs |-> xs, ys |-> ys]

(* ---------------------------- zonal means ----------------------------- *)

\* cell size of the label transform: xs[1] - xs[0], or 1.0 for a single column
LabelCell(xs) == IF Len(xs) > 1 THEN (xs[2] - xs[1]) \div 2 ELSE 1

\* from_origin(minx, maxy, cell, cell), the origin doubled
LabelTransform(xs, ys) ==
    [ox2 |-> xs[1] - LabelCell(xs), oy2 |-> ys[1] + LabelCell(xs),
     cell |-> LabelCell(xs)]

\* whether the (doubled) point lies in the rectangle (metres)
InPoly(poly, px2, py2) ==
    /\ 2 * poly[1] <= px2 /\ px2 < 2 * poly[3]
    /\ 2 * poly[2] < py2 /\ py2 <= 2 * poly[4]

\* rasterize_tract_labels: labels[H, W]; a cell whose centre lies in several
\* polygons keeps the last one burnt, a cell in none is 0
rasterize_tract_labels(pd, xs, ys) ==
    LET tf == LabelTransform(xs, ys)
    IN  [r \in 1..Len(ys) |-> [c \in 1..Len(xs) |->
            LET px2 == tf.ox2 + (2 * c - 1) * tf.cell
                py2 == tf.oy2 - (2 * r - 1) * tf.cell
                hit == {i \in DOMAIN pd.tract_polys_m :
                            InPoly(pd.tract_polys_m[i], px2, py2)}
            IN  IF hit = {} THEN 0 ELSE SetMax(hit)]]

RECURSIVE SumOver(_, _)
SumOver(S, f) ==
    IF S = {} THEN FInt(0)
    ELSE LET a == CHOOSE a \in S : TRUE IN FAdd(f[a], SumOver(S \ {a}, f))

\* a variant of ValidCell that takes every cell under a label
ValidCellAnyValue(v, l) == l # 0

\* valid = np.isfinite(raster) & (labels != 0), for one cell
ValidCell(v, l) == IsFinite(v) /\ l # 0

\* zonal_means after the rasterization: {gid: mean of the finite raster
\* values under its label}; labels are visited in ascending order, so of two
\* labels with one gid the larger stays
MeansByLabel(tract_ids, raster, labels) ==
    LET cells == UNION {{<<r, c>> : c \in DOMAIN labels[r]} : r \in DOMAIN labels}
        valid == {rc \in cells : ValidCell(raster[rc[1]][rc[2]], labels[rc[1]][rc[2]])}
        uniq == {labels[rc[1]][rc[2]] : rc \in valid}
        val == [rc \in valid |-> raster[rc[1]][rc[2]]]
        mean_by == [l \in uniq |->
                      LET of == {rc \in valid : labels[rc[1]][rc[2]] = l}
                      IN  FDiv(SumOver(of, val), FInt(Cardinality(of)))]
    IN  [g \in {tract_ids[l] : l \in uniq} |->
            mean_by[SetMax({l \in uniq : tract_ids[l] = g})]]

\* zonal_means(raster, xs, ys)
zonal_means(pd, raster, xs, ys) ==
    MeansByLabel(pd.tract_ids, raster, rasterize_tract_labels(pd, xs, ys))


(* --------------------------------- OLS -------------------------------- *)

NaNP == [t2 |-> NaN, df |-> 0]

NaNCI == [centre |-> NaN, se2 |-> NaN, df |-> 0]

NoFit ==
    [exc |-> "", slope |-> NaN, intercept |-> NaN, r2 |-> NaN,
     p_value |-> NaNP, ci |-> NaNCI]

\* the two-sided p-value of the slope, kept as its t statistic squared and
\* the residual degrees of freedom; NaN when either is undefined
PValue(slope, se2, df) ==
    IF df = 0 \/ FDiv(FMul(slope, slope), se2) = NaN THEN NaNP
    ELSE [t2 |-> FDiv(FMul(slope, slope), se2), df |-> df]

\* the 95% interval slope -+ t(df) * sqrt(se2), kept as its three parameters
ConfInt(slope, se2, df) ==
    IF df = 0 \/ ~IsFinite(slope) \/ ~IsFinite(se2) THEN NaNCI
    ELSE [centre |-> slope, se2 |-> se2, df |-> df]

\* sm.OLS(y, sm.add_constant(x)).fit() and the reads of params[1], params[0],
\* rsquared, pvalues[1], conf_int()[1]; x and y are sequences of floats.
\*   no observation: add_constant raises ValueError (np.ptp of an empty array)
\*   x constant and non-zero: add_constant (has_constant='skip') adds no
\*     column, and params[1] raises IndexError
\*   x all zero: the design has rank 1 and the pseudo-inverse gives slope 0
OLSFit(x, y) ==
    LET n == Len(x)
        N == FInt(n)
        xbar == FDiv(FSum(x), N)
        ybar == FDiv(FSum(y), N)
        Sxx == FSum([i \in 1..n |-> FMul(FSub(x[i], xbar), FSub(x[i], xbar))])
        Sxy == FSum([i \in 1..n |-> FMul(FSub(x[i], xbar), FSub(y[i], ybar))])
        Syy == FSum([i \in 1..n |-> FMul(FSub(y[i], ybar), FSub(y[i], ybar))])
        slope == FDiv(Sxy, Sxx)
        ssr == FSub(Syy, FMul(slope, Sxy))
        se2 == FDiv(FDiv(ssr, FInt(n - 2)), Sxx)
    IN  IF n = 0 THEN [NoFit EXCEPT !.exc = "ValueError"]
        ELSE IF (\A i \in 1..n : x[i] = x[1]) /\ x[1] # FInt(0)
             THEN [NoFit EXCEPT !.exc = "IndexError"]
        ELSE IF \A i \in 1..n : x[i] = FInt(0)
             THEN [exc |-> "", slope |-> FInt(0), intercept |-> ybar,
                   r2 |-> FSub(FInt(1), FDiv(Syy, Syy)),
                   p_value |-> NaNP,
                   ci |-> ConfInt(FInt(0), FInt(0), n - 1)]
        ELSE [exc |-> "", slope |-> slope,
              intercept |-> FSub(ybar, FMul(slope, xbar)),
              r2 |-> FSub(FInt(1), FDiv(ssr, Syy)),
              p_value |-> PValue(slope, se2, n - 2),
              ci |-> ConfInt(slope, se2, n - 2)]

\* unit inference: max_rate = nanmax over every row's canrate, and
\* isfinite(max_rate) and max_rate <= 1.0.  nanmax skips the missing values;
\* it is +inf if a rate is, and -inf (or the TypeError caught, or NaN) when
\* no rate is finite
IsProportion(rates) ==
    LET have == {i \in DOMAIN rates : ~IsNA(rates[i])}
    IN  /\ \E i \in have : IsFinite(rates[i])
        /\ \A i \in have : rates[i] # PosInf
        /\ \A i \in have : IsFinite(rates[i]) => FLe(rates[i], FInt(1))

RateUnits(rates) == IF IsProportion(rates) THEN "proportion" ELSE "raw"

RateScale(rates) == IF IsProportion(rates) THEN 100000 ELSE 1

(* ---------------------------- run_pipeline ---------------------------- *)

NoPath == <<"None", 0>>

\* the table: one row per entry of tract_ids
TableRows(pd, mean_by_gid) ==
    [i \in DOMAIN pd.tract_ids |->
        [GEOID10 |-> pd.tract_ids[i],
         mean_nitrate |-> IF pd.tract_ids[i] \in DOMAIN mean_by_gid
                          THEN mean_by_gid[pd.tract_ids[i]] ELSE NaN,
         canrate |-> pd.rate_by_gid[pd.tract_ids[i]]]]

RECURSIVE SelectSeq2(_, _)
SelectSeq2(s, keep) ==
    IF s = <<>> THEN <<>>
    ELSE IF keep[1] THEN <<Head(s)>> \o SelectSeq2(Tail(s), Tail(keep))
         ELSE SelectSeq2(Tail(s), Tail(keep))

\* df.dropna(subset=["mean_nitrate", "canrate"])
DropNA(rows) ==
    SelectSeq2(rows, [i \in DOMAIN rows |->
                        ~IsNA(rows[i].mean_nitrate) /\ ~IsNA(rows[i].canrate)])

\* the "ols" object of a result, from the table
OlsOf(rows, fit) ==
    [slope |-> fit.slope, intercept |-> fit.intercept, r2 |-> fit.r2,
     p_value |-> fit.p_value, ci |-> fit.ci, n |-> Len(DropNA(rows)),
     rate_units |-> RateUnits([i \in DOMAIN rows |-> rows[i].canrate]),
     rate_scale |-> RateScale([i \in DOMAIN rows |-> rows[i].canrate])]


\* to_csv then read_csv: a missing value (None or NaN) is written as an empty
\* field and read back as NaN
CsvField(v) == IF IsNA(v) THEN NaN ELSE v

CsvText(rows) ==
    [i \in DOMAIN rows |->
        [GEOID10 |-> rows[i].GEOID10,
         mean_nitrate |-> CsvField(rows[i].mean_nitrate),
         canrate |-> CsvField(rows[i].canrate)]]

\* the colour-ramp image of the raster: one pixel per cell
PngImage(raster) ==
    [height |-> Len(raster),
     width |-> IF raster = <<>> THEN 0 ELSE Len(raster[1]),
     pixels |-> raster]

TF_DATA_TO_LL(v) == TF_M_TO_LL(TF_DATA_TO_M(v))

\* the features of the polygon export: the tract file is read again, a
\* feature without GEOID10 is left out
RECURSIVE GeoFeatures(_, _, _)
GeoFeatures(feats, pd, mean_by_gid) ==
    IF feats = <<>> THEN <<>>
    ELSE LET f == Head(feats)
             one == [GEOID10 |-> f.GEOID10,
                     canrate |-> IF f.GEOID10 \in DOMAIN pd.rate_by_gid
                                 THEN pd.rate_by_gid[f.GEOID10] ELSE None,
                     mean_nitrate |-> IF f.GEOID10 \in DOMAIN mean_by_gid
                                      THEN mean_by_gid[f.GEOID10] ELSE None,
                     geometry |-> [j \in 1..4 |-> TF_DATA_TO_LL(f.rect[j])]]
         IN  IF f.GEOID10 = "" THEN GeoFeatures(Tail(feats), pd, mean_by_gid)
             ELSE <<one>> \o GeoFeatures(Tail(feats), pd, mean_by_gid)

\* fs with the file name holding content
WriteFile(fs, name, content) ==
    [n \in DOMAIN fs \cup {name} |-> IF n = name THEN content ELSE fs[n]]

NoOut ==
    [png |-> NoPath, bounds |-> <<0, 0, 0, 0>>, geojson |-> NoPath, csv |-> NoPath,
     ols |-> [slope |-> NaN, intercept |-> NaN, r2 |-> NaN, p_value |-> NaNP,
              ci |-> NaNCI, n |-> 0, rate_units |-> "raw", rate_scale |-> 1]]

\* a variant of WritesOutputs: the artifacts are produced at every call
WritesAlways(write_outputs) == TRUE

\* whether run_pipeline produces the artifacts: if write_outputs
WritesOutputs(write_outputs) == write_outputs

\* the fit of the rows left by dropna
FitOf(clean) ==
    OLSFit([i \in DOMAIN clean |-> clean[i].mean_nitrate],
           [i \in DOMAIN clean |-> clean[i].canrate])

\* run_pipeline, the outputs and the return (pipeline.py 386-432): the
\* exception raised ("" if none), the result, the files
OutputStep(pd, shp, grid, k, write_outputs, fs, mean_by_gid, rows, fit) ==
    LET fs1 == WriteFile(fs, PngName(k), PngImage(grid.raster))
        fs2 == WriteFile(fs1, CsvName(k), CsvText(rows))
        fs3 == WriteFile(fs2, GeoJsonName(k), GeoFeatures(shp.tracts, pd, mean_by_gid))
    IN  IF fit.exc # "" THEN [exc |-> fit.exc, out |-> NoOut, files |-> fs]
        ELSE [exc |-> "",
              out |-> [png |-> IF WritesOutputs(write_outputs) THEN PngName(k) ELSE NoPath,
                       bounds |-> bounds_ll(pd),
                       geojson |-> IF WritesOutputs(write_outputs)
                                   THEN GeoJsonName(k) ELSE NoPath,
                       csv |-> IF WritesOutputs(write_outputs) THEN CsvName(k) ELSE NoPath,
                       ols |-> OlsOf(rows, fit)],
              files |-> IF WritesOutputs(write_outputs) THEN fs3 ELSE fs]

\* run_pipeline, step 3: the table, dropna and the regression
OlsStep(pd, shp, grid, k, write_outputs, fs, mean_by_gid, rows) ==
    OutputStep(pd, shp, grid, k, write_outputs, fs, mean_by_gid, rows,
               FitOf(DropNA(rows)))

\* run_pipeline, step 2: mean_by_gid = self.zonal_means(raster, xs, ys)
ZonalStep(pd, shp, grid, k, write_outputs, fs, mean_by_gid) ==
    OlsStep(pd, shp, grid, k, write_outputs, fs, mean_by_gid,
            TableRows(pd, mean_by_gid))

\* run_pipeline after idw_grid returned grid
PipelineTail(pd, shp, grid, k, write_outputs, fs) ==
    ZonalStep(pd, shp, grid, k, write_outputs, fs,
              zonal_means(pd, grid.raster, grid.xs, grid.ys))

\* run_pipeline(k, neighbors, cell_size, write_outputs) on pd
PipelineFrom(pd, shp, grid, k, write_outputs, fs) ==
    IF grid.exc # "" THEN [exc |-> grid.exc, out |-> NoOut, files |-> fs]
    ELSE PipelineTail(pd, shp, grid, k, write_outputs, fs)

run_pipeline(pd, shp, k, neighbors, cell_size, write_outputs, fs) ==
    PipelineFrom(pd, shp, idw_grid(pd, k, neighbors, cell_size), k,
                 write_outputs, fs)


(* ------------------------------ the server ---------------------------- *)

\* requests handled in one run of the process (one thread each)
NumRequests == 2

Requests == 1..NumRequests

VARIABLES
    shp,            \* the shapefile directory (a key of Shapefiles)
    files,          \* the output directory: file name -> content
    project_data,   \* the global _project_data: 0 is None, else an object id
    instances,      \* the ProjectData objects constructed so far, by id
    threaded,       \* app.run(threaded=...): whether requests may overlap
    pc,             \* per request: where its handler stands
    req,            \* per request: the parsed payload
    loc,            \* per request: the handler's locals (pd, loop index, rows)
    frame,          \* run_pipeline's locals (the grid), one frame per call
    evals,          \* per request: the run_pipeline calls it made
    resp,           \* per request: the response sent (status 0: none yet)
    gridIn,         \* the arguments of the function a specification applies
                    \* (SpecGrid: the extent and the cell size of idw_grid)
    gridOut         \* what the function returned (SpecGrid: the grid shape
                    \* and the label transform)

vars == <<shp, files, project_data, instances, threaded, pc, req, loc, frame,
          evals, resp, gridIn, gridOut>>

serverVars == <<shp, files, project_data, instances, threaded, pc, req, loc,
                frame, evals, resp>>

\* the bounds.json left by an earlier process that ran on other shapefiles
StaleBounds == <<0, 0, 9, 9>>

\* what the output directory may hold when the process starts: nothing, or
\* the files of an earlier process that ran k = 2 on other shapefiles, whose
\* table has one row with both a mean and a rate
PriorTable ==
    << [GEOID10 |-> "A", mean_nitrate |-> FInt(1), canrate |-> Frac(1, 4)],
       [GEOID10 |-> "B", mean_nitrate |-> NaN, canrate |-> Frac(1, 2)] >>

PriorRun ==
    [n \in {BoundsJson, PngName(2), CsvName(2), GeoJsonName(2)} |->
        IF n = BoundsJson THEN StaleBounds
        ELSE IF n = CsvName(2) THEN PriorTable
        ELSE <<>>]

InitialOutputs == {<<>>, PriorRun}

NoReq == [kind |-> "none", ks |-> <<>>, neighbors |-> 0, cell_size |-> 0]

NoLoc == [pd |-> 0, i |-> 1, rows |-> <<>>]

NoResp == [status |-> 0, error |-> "", body |-> NoOut, rows |-> <<>>]

\* api_run payloads (k, neighbors, cell_size), threaded server
RunPayloads == {<<2, 1, 3>>}

\* api_sensitivity payloads (ks, neighbors, cell_size), threaded server
SweepPayloads == {<< <<0, 2>>, 2, 2 >>}

\* api_run payloads of the serial server
RunPayloadsSerial ==
    {<<2, 2, 2>>, <<2, 1, 2>>, <<4, 1, 2>>, <<2, 2, 6>>, <<0, 2, 2>>,
     <<2, 0, 2>>, <<2, 4, 2>>, <<2, 2, 0>>}

SweepPayloadsSerial ==
    {<< <<0, 2>>, 2, 2 >>, << <<2, -2>>, 1, 3 >>, << <<2, 0, 2>>, 2, 2 >>}

GridIdle == [phase |-> "off", extent |-> <<0, 0, 0, 0>>, cell_size |-> 1]

GridNone == [width |-> 0, height |-> 0, xs |-> <<>>, ys |-> <<>>,
             tf |-> [ox2 |-> 0, oy2 |-> 0, cell |-> 0]]

InitServer(datasets, outputs, mode) ==
    /\ shp \in datasets
    /\ files \in outputs
    /\ project_data = 0
    /\ instances = <<>>
    /\ threaded = mode
    /\ pc = [r \in Requests |-> "new"]
    /\ req = [r \in Requests |-> NoReq]
    /\ loc = [r \in Requests |-> NoLoc]
    /\ frame = [r \in Requests |-> NoGrid]
    /\ evals = [r \in Requests |-> <<>>]
    /\ resp = [r \in Requests |-> NoResp]
    /\ gridIn = GridIdle
    /\ gridOut = GridNone

Init == InitServer({"full", "notracts"}, {<<>>}, TRUE)

InitSerial == InitServer(DOMAIN Shapefiles, InitialOutputs, FALSE)

\* a variant of FrameOf: the locals kept in one place for every call
FrameOfShared(r) == 1

\* the frame holding the locals of the run_pipeline call of request r
FrameOf(r) == r

Reply(r, status, error, body, rows) ==
    resp' = [resp EXCEPT ![r] = [status |-> status, error |-> error,
                                 body |-> body, rows |-> rows]]

\* a request arrives and its payload is parsed (app.py 56-59, 153-156); the
\* serial server takes it only when no other request is being handled
Recv(r) ==
    /\ pc[r] = "new"
    /\ \A q \in Requests : q < r => pc[q] # "new"
    /\ threaded \/ \A q \in Requests : pc[q] \in {"new", "done"}
    /\ \E kind \in {"run", "sens"} :
         \E p \in IF kind = "run"
                  THEN {<< <<q[1]>>, q[2], q[3] >> :
                          q \in IF threaded THEN RunPayloads ELSE RunPayloadsSerial}
                  ELSE IF threaded THEN SweepPayloads ELSE SweepPayloadsSerial :
            req' = [req EXCEPT ![r] = [kind |-> kind, ks |-> p[1],
                                       neighbors |-> p[2], cell_size |-> p[3]]]
    /\ pc' = [pc EXCEPT ![r] = "gpd_check"]
    /\ UNCHANGED <<shp, files, project_data, instances, threaded, loc, frame,
                   evals, resp, gridIn, gridOut>>

\* get_project_data: if _project_data is None
GpdCheck(r) ==
    /\ pc[r] = "gpd_check"
    /\ pc' = [pc EXCEPT ![r] = IF project_data = 0 THEN "gpd_init" ELSE "gpd_return"]
    /\ UNCHANGED <<shp, files, project_data, instances, threaded, req, loc, frame,
                   evals, resp, gridIn, gridOut>>

\* a variant of Binds: the global is bound whether or not __init__ returned
BindsAlways(exc) == TRUE

\* whether _project_data = ProjectData(...) binds the global: only when
\* __init__ returned
Binds(exc) == exc = ""

\* get_project_data: _project_data = ProjectData(SHPS, OUTPUTS); an exception
\* of __init__ leaves the global None and ends the request with status 500
GpdInit(r) ==
    /\ pc[r] = "gpd_init"
    /\ \E c \in {ProjectDataInit(Shapefiles[shp], files)} :
           /\ files' = c.files
           /\ IF Binds(c.exc)
              THEN /\ instances' = Append(instances, c.pd)
                   /\ project_data' = Len(instances) + 1
                   /\ pc' = [pc EXCEPT ![r] = "gpd_return"]
                   /\ UNCHANGED resp
              ELSE /\ UNCHANGED <<instances, project_data>>
                   /\ pc' = [pc EXCEPT ![r] = "done"]
                   /\ Reply(r, 500, c.exc, NoOut, <<>>)
    /\ UNCHANGED <<shp, threaded, req, loc, frame, evals, gridIn, gridOut>>

\* get_project_data: return _project_data
GpdReturn(r) ==
    /\ pc[r] = "gpd_return"
    /\ loc' = [loc EXCEPT ![r].pd = project_data]
    /\ pc' = [pc EXCEPT ![r] = IF req[r].kind = "run" THEN "cache" ELSE "idw"]
    /\ UNCHANGED <<shp, files, project_data, instances, threaded, req, frame,
                   evals, resp, gridIn, gridOut>>


\* the fit of the cache-hit path: only with two observations or more
CachedFit(x, y) == IF Len(x) >= 2 THEN OLSFit(x, y) ELSE NoFit

NoBounds == <<>>

\* api_run, cache-hit path (app.py 72-123): the statistics are recomputed
\* from the CSV of the tag, the bounds are read from bounds.json
CacheBody(fs, k, df, fit) ==
    IF fit.exc # "" THEN [exc |-> fit.exc, body |-> NoOut]
    ELSE [exc |-> "",
          body |-> [png |-> PngName(k),
                    bounds |-> IF BoundsJson \in DOMAIN fs
                               THEN fs[BoundsJson] ELSE NoBounds,
                    geojson |-> GeoJsonName(k),
                    csv |-> CsvName(k),
                    ols |-> OlsOf(df, fit)]]

CachedFitOf(dfc) ==
    CachedFit([i \in DOMAIN dfc |-> dfc[i].mean_nitrate],
              [i \in DOMAIN dfc |-> dfc[i].canrate])

CacheHit(fs, k) ==
    CacheBody(fs, k, fs[CsvName(k)], CachedFitOf(DropNA(fs[CsvName(k)])))

\* api_run: if the three files of the tag exist, answer from them
ApiRunCache(r) ==
    /\ pc[r] = "cache"
    /\ LET k == req[r].ks[1]
       IN  IF {PngName(k), CsvName(k), GeoJsonName(k)} \subseteq DOMAIN files
           THEN /\ pc' = [pc EXCEPT ![r] = "done"]
                /\ \E hit \in {CacheHit(files, k)} :
                      IF hit.exc # ""
                      THEN Reply(r, 500, hit.exc, NoOut, <<>>)
                      ELSE Reply(r, 200, "", hit.body, <<>>)
           ELSE /\ pc' = [pc EXCEPT ![r] = "idw"]
                /\ UNCHANGED resp
    /\ UNCHANGED <<shp, files, project_data, instances, threaded, req, loc, frame,
                   evals, gridIn, gridOut>>

\* the record of one run_pipeline call
Eval(r, exc, out, touched) ==
    [k |-> req[r].ks[loc[r].i], neighbors |-> req[r].neighbors,
     cell_size |-> req[r].cell_size, write_outputs |-> req[r].kind = "run",
     pd |-> loc[r].pd, exc |-> exc, out |-> out, touched |-> touched]

\* run_pipeline, step 1: raster, xs, ys = self.idw_grid(...)
IdwStep(r) ==
    /\ pc[r] = "idw"
    /\ \E g \in {idw_grid(instances[loc[r].pd], req[r].ks[loc[r].i],
                          req[r].neighbors, req[r].cell_size)} :
           IF g.exc # ""
           THEN /\ evals' = [evals EXCEPT ![r] = Append(@, Eval(r, g.exc, NoOut, FALSE))]
                /\ pc' = [pc EXCEPT ![r] = "done"]
                /\ Reply(r, 500, g.exc, NoOut, <<>>)
                /\ UNCHANGED frame
           ELSE /\ frame' = [frame EXCEPT ![FrameOf(r)] = g]
                /\ pc' = [pc EXCEPT ![r] = "tail"]
                /\ UNCHANGED <<evals, resp>>
    /\ UNCHANGED <<shp, files, project_data, instances, threaded, req, loc,
                   gridIn, gridOut>>

SweepRow(k, ols) ==
    [k |-> k, r2 |-> ols.r2, slope |-> ols.slope, intercept |-> ols.intercept,
     p_value |-> ols.p_value, ci |-> ols.ci, n |-> ols.n]

\* run_pipeline, steps 2 and 3, the outputs and the return; then api_run
\* answers, and api_sensitivity appends the row and goes on with the next k
Finish(r) ==
    /\ pc[r] = "tail"
    /\ \E k \in {req[r].ks[loc[r].i]} :
       \E res \in {PipelineTail(instances[loc[r].pd], Shapefiles[shp],
                                frame[FrameOf(r)], k, req[r].kind = "run", files)} :
           /\ files' = res.files
           /\ evals' = [evals EXCEPT ![r] =
                           Append(@, Eval(r, res.exc, res.out, res.files # files))]
           /\ IF res.exc # ""
              THEN /\ pc' = [pc EXCEPT ![r] = "done"]
                   /\ Reply(r, 500, res.exc, NoOut, <<>>)
                   /\ UNCHANGED loc
              ELSE IF req[r].kind = "run"
              THEN /\ pc' = [pc EXCEPT ![r] = "done"]
                   /\ Reply(r, 200, "", res.out, <<>>)
                   /\ UNCHANGED loc
              ELSE /\ loc' = [loc EXCEPT ![r].rows = Append(@, SweepRow(k, res.out.ols)),
                                         ![r].i = @ + 1]
                   /\ pc' = [pc EXCEPT ![r] = IF loc[r].i = Len(req[r].ks)
                                              THEN "sens_csv" ELSE "idw"]
                   /\ UNCHANGED resp
    /\ UNCHANGED <<shp, project_data, instances, threaded, req, frame, gridIn,
                   gridOut>>

\* api_sensitivity: one CSV for the whole sweep, then the answer
SensCsv(r) ==
    /\ pc[r] = "sens_csv"
    /\ files' = WriteFile(files, SensName(req[r].neighbors, req[r].cell_size),
                          loc[r].rows)
    /\ pc' = [pc EXCEPT ![r] = "done"]
    /\ Reply(r, 200, "", NoOut, loc[r].rows)
    /\ UNCHANGED <<shp, project_data, instances, threaded, req, loc, frame, evals,
                   gridIn, gridOut>>

Next ==
    \E r \in Requests :
        \/ Recv(r)
        \/ GpdCheck(r)
        \/ GpdInit(r)
        \/ GpdReturn(r)
        \/ ApiRunCache(r)
        \/ IdwStep(r)
        \/ Finish(r)
        \/ SensCsv(r)

\* the threaded server (app.run(threaded=True)): handlers interleave
Spec == Init /\ [][Next]_vars

\* the same handlers when no two requests overlap, over more payloads and
\* more shapefile directories
SpecSerial == InitSerial /\ [][Next]_vars

(* ------------------- the grid and the label transform ----------------- *)

\* coordinates of the extents tried range over 0..MaxCoord, cell sizes over
\* 1..MaxCell
MaxCoord == 3

MaxCell == 4

Extents ==
    {<<x0, y0, x1, y1>> : x0 \in 0..MaxCoord, y0 \in 0..MaxCoord,
                          x1 \in 0..MaxCoord, y1 \in 0..MaxCoord}

\* a ProjectData about to build a grid: its union_bounds and the cell_size
InitGrid ==
    /\ shp = "full"
    /\ files = <<>>
    /\ project_data = 0
    /\ instances = <<>>
    /\ threaded = FALSE
    /\ pc = [r \in Requests |-> "done"]
    /\ req = [r \in Requests |-> NoReq]
    /\ loc = [r \in Requests |-> NoLoc]
    /\ frame = [r \in Requests |-> NoGrid]
    /\ evals = [r \in Requests |-> <<>>]
    /\ resp = [r \in Requests |-> NoResp]
    /\ gridIn \in {[phase |-> "new", extent |-> e, cell_size |-> c] :
                     e \in {b \in Extents : b[1] <= b[3] /\ b[2] <= b[4]},
                     c \in 1..MaxCell}
    /\ gridOut = GridNone

\* idw_grid, pipeline.py 215-221: width, height, xs, ys
GridShape ==
    /\ gridIn.phase = "new"
    /\ \E width \in {GridCount(gridIn.extent[3] - gridIn.extent[1], gridIn.cell_size)} :
       \E height \in {GridCount(gridIn.extent[4] - gridIn.extent[2], gridIn.cell_size)} :
          gridOut' = [gridOut EXCEPT
                         !.width = width, !.height = height,
                         !.xs = CentresX2(gridIn.extent[1], width, gridIn.cell_size),
                         !.ys = CentresY2(gridIn.extent[4], height, gridIn.cell_size)]
    /\ gridIn' = [gridIn EXCEPT !.phase = "grid"]
    /\ UNCHANGED serverVars

\* rasterize_tract_labels, pipeline.py 259-263: the transform from xs, ys
GridLabels ==
    /\ gridIn.phase = "grid"
    /\ gridOut' = [gridOut EXCEPT !.tf = LabelTransform(gridOut.xs, gridOut.ys)]
    /\ gridIn' = [gridIn EXCEPT !.phase = "labels"]
    /\ UNCHANGED serverVars

NextGrid == GridShape \/ GridLabels

\* idw_grid followed by rasterize_tract_labels on every extent and cell size
\* within the bounds
SpecGrid == InitGrid /\ [][NextGrid]_vars



(* ------------------------- zonal_means on its own --------------------- *)

\* no request is being handled
IdleServer ==
    /\ shp = "full"
    /\ files = <<>>
    /\ project_data = 0
    /\ instances = <<>>
    /\ threaded = FALSE
    /\ pc = [r \in Requests |-> "done"]
    /\ req = [r \in Requests |-> NoReq]
    /\ loc = [r \in Requests |-> NoLoc]
    /\ frame = [r \in Requests |-> NoGrid]
    /\ evals = [r \in Requests |-> <<>>]
    /\ resp = [r \in Requests |-> NoResp]

\* rasters and label grids of at most MaxCells cells
MaxCells == 3

Shapes == {hw \in (1..MaxCells) \X (1..MaxCells) : hw[1] * hw[2] <= MaxCells}

RasterValues == {NaN, PosInf, FInt(1), FInt(3)}

\* tract_ids of a ProjectData with two tracts: labels 1 and 2
ZoneIds == <<"A", "B">>

ZonalInputs(hw) ==
    {[phase |-> "new", raster |-> ra, labels |-> la] :
        ra \in [1..hw[1] -> [1..hw[2] -> RasterValues]],
        la \in [1..hw[1] -> [1..hw[2] -> 0..Len(ZoneIds)]]}

InitZonal ==
    /\ IdleServer
    /\ \E hw \in Shapes : gridIn \in ZonalInputs(hw)
    /\ gridOut = <<>>

\* zonal_means, pipeline.py 285-303, on the raster and the labels
ZonalMeans ==
    /\ gridIn.phase = "new"
    /\ gridOut' = MeansByLabel(ZoneIds, gridIn.raster, gridIn.labels)
    /\ gridIn' = [gridIn EXCEPT !.phase = "done"]
    /\ UNCHANGED serverVars

SpecZonal == InitZonal /\ [][ZonalMeans]_vars

(* ------------------------- loading on its own -------------------------- *)

\* shapefiles of at most MaxFeats features each
MaxFeats == 3

\* well features: good ones, and one of each kind _load_wells passes over
WellFeatures ==
    { Well(0, 0, FInt(1)), Well(3, 0, FInt(5)), Well(1, 1, None),
      Well(2, 0, NotNumeric), Well(2, 1, PosInf),
      [x |-> 0, y |-> 0, empty |-> TRUE, v |-> FInt(3)] }

\* tract features: id in GEOID10, no id at all, id in GEOID only
TractFeatures ==
    { Tract("A", "", Frac(1, 4), None, None, <<0, 0, 1, 1>>),
      Tract("", "", FInt(9), None, None, <<0, 0, 3, 1>>),
      Tract("", "B", NotNumeric, None, None, <<1, 0, 2, 1>>) }

SeqsUpTo(S, n) == UNION {[1..m -> S] : m \in 0..n}

InitLoad ==
    /\ IdleServer
    /\ gridIn \in {[phase |-> "new", wells |-> w, tracts |-> t] :
                      w \in SeqsUpTo(WellFeatures, MaxFeats),
                      t \in SeqsUpTo(TractFeatures, MaxFeats)}
    /\ gridOut = <<>>

\* ProjectData(SHAPE_DIR, OUT_DIR) on the two shapefiles, the output
\* directory being empty
Load ==
    /\ gridIn.phase = "new"
    /\ gridOut' = ProjectDataInit([wellsFile |-> TRUE, tractsFile |-> TRUE,
                                   wells |-> gridIn.wells,
                                   tracts |-> gridIn.tracts], <<>>)
    /\ gridIn' = [gridIn EXCEPT !.phase = "done"]
    /\ UNCHANGED serverVars

SpecLoad == InitLoad /\ [][Load]_vars

(* ------------------------------- properties ------------------------------- *)

\* run_pipeline called on its own with the arguments of the recorded call e
Alone(e) ==
    run_pipeline(instances[e.pd], Shapefiles[shp], e.k, e.neighbors,
                 e.cell_size, e.write_outputs, <<>>)

SweepEvalAsAlone(e, a) == e.exc = a.exc /\ e.out = a.out /\ ~e.touched

\* C1: under every interleaving of the threaded server, each run_pipeline
\* call with write_outputs=False made by api_sensitivity ends as the same call
\* made on its own (same exception or same result), touches no file, and the
\* sweep row kept for it holds the regression result of that call.
C1_SweepParallelSafe ==
    \A r \in Requests : \A i \in DOMAIN evals[r] :
        ~evals[r][i].write_outputs =>
            /\ SweepEvalAsAlone(evals[r][i], Alone(evals[r][i]))
            /\ i \in DOMAIN loc[r].rows =>
                  loc[r].rows[i] = SweepRow(req[r].ks[i], evals[r][i].out.ols)

\* two sweeps are inside run_pipeline at once, one of them after a completed
\* evaluation
C1_TwoSweepsInFlight ==
    \E r \in Requests : \E q \in Requests \ {r} :
        /\ req[r].kind = "sens" /\ req[q].kind = "sens"
        /\ pc[r] = "tail" /\ pc[q] = "tail"
        /\ Len(evals[r]) >= 1 /\ evals[r][1].exc = ""

SameCall(e, f) ==
    /\ e.pd = f.pd /\ e.k = f.k /\ e.neighbors = f.neighbors
    /\ e.cell_size = f.cell_size /\ e.write_outputs = f.write_outputs

\* C2: any two run_pipeline calls with the same (k, neighbors, cell_size,
\* write_outputs) on the same ProjectData end alike: the same exception, or
\* the same bounds and the same regression fields, whatever calls ran between
\* or beside them.
C2_SameCallSameResult ==
    \A r \in Requests, q \in Requests :
        \A i \in DOMAIN evals[r], j \in DOMAIN evals[q] :
            SameCall(evals[r][i], evals[q][j]) =>
                /\ evals[r][i].exc = evals[q][j].exc
                /\ evals[r][i].out.bounds = evals[q][j].out.bounds
                /\ evals[r][i].out.ols = evals[q][j].out.ols

\* two requests made the same successful call, with a call of another k made
\* by each of them too
C2_RepeatedCall ==
    \E r \in Requests : \E q \in Requests \ {r} :
        /\ Len(evals[r]) >= 2 /\ Len(evals[q]) >= 2
        /\ SameCall(evals[r][1], evals[q][1])
        /\ evals[r][1].exc = "" /\ evals[q][1].exc = ""
        /\ evals[r][2].k # evals[r][1].k

\* the call e made with write_outputs=True on the directory as it stands
WithOutputs(e) ==
    run_pipeline(instances[e.pd], Shapefiles[shp], e.k, e.neighbors,
                 e.cell_size, TRUE, files)

NoArtifacts(e, w) ==
    /\ ~e.touched
    /\ e.exc = w.exc
    /\ e.exc = "" =>
          /\ e.out.png = NoPath /\ e.out.csv = NoPath /\ e.out.geojson = NoPath
          /\ e.out.bounds = w.out.bounds
          /\ e.out.ols = w.out.ols

\* C3: a run_pipeline call with write_outputs=False changes no file of the
\* output directory, returns png, csv and geojson as None, and returns the
\* bounds and the regression fields of the same call with write_outputs=True.
C3_NoOutputsSameResult ==
    \A r \in Requests : \A i \in DOMAIN evals[r] :
        ~evals[r][i].write_outputs => NoArtifacts(evals[r][i], WithOutputs(evals[r][i]))

\* a call with write_outputs=False returned a fit on two zones or more
C3_SweepEvalDone ==
    \E r \in Requests : \E i \in DOMAIN evals[r] :
        /\ ~evals[r][i].write_outputs
        /\ evals[r][i].exc = ""
        /\ evals[r][i].out.ols.n >= 2
        /\ evals[r][i].out.png = NoPath
        /\ files # <<>>


\* the grid of the recorded call e
GridOfEval(e) == idw_grid(instances[e.pd], e.k, e.neighbors, e.cell_size)

\* the zones with both a zonal mean and a rate, on the grid
ValidZones(pd, grid) ==
    Len(DropNA(TableRows(pd, zonal_means(pd, grid.raster, grid.xs, grid.ys))))

DegenerateOls(ols, n) ==
    /\ ols.slope = NaN /\ ols.intercept = NaN /\ ols.r2 = NaN
    /\ ols.p_value = NaNP /\ ols.ci = NaNCI
    /\ ols.n = n

DegenerateEval(e, n) == n < 2 => e.exc = "" /\ DegenerateOls(e.out.ols, n)

\* the request was answered from the files of its tag
AnsweredFromCache(r) ==
    /\ req[r].kind = "run" /\ pc[r] = "done"
    /\ loc[r].pd # 0 /\ evals[r] = <<>>

DegenerateReply(rs, n) == n < 2 => rs.status = 200 /\ DegenerateOls(rs.body.ols, n)

\* C4: whenever fewer than 2 zones have both a zonal mean and a rate, the
\* evaluation raises nothing and returns slope, intercept, r2, p_value and CI
\* as NaN with n the number of such zones, in run_pipeline and in the
\* cache-hit path of api_run.
C4_DegenerateIsNaN ==
    /\ \A r \in Requests : \A i \in DOMAIN evals[r] :
          GridOfEval(evals[r][i]).exc = "" =>
              DegenerateEval(evals[r][i],
                             ValidZones(instances[evals[r][i].pd],
                                        GridOfEval(evals[r][i])))
    /\ \A r \in Requests :
          AnsweredFromCache(r) =>
              DegenerateReply(resp[r], Len(DropNA(files[CsvName(req[r].ks[1])])))

InvalidParams(pd, k, neighbors, cell_size) ==
    \/ k <= 0 \/ cell_size <= 0 \/ neighbors <= 0
    \/ neighbors > Len(pd.wells_vals)

\* C5: an evaluation with k <= 0, cell_size <= 0, neighbors <= 0 or neighbors
\* above the number of wells raises, writes no artifact, and its request is
\* answered with an error and no result bundle.
C5_InvalidIsError ==
    /\ \A r \in Requests : \A i \in DOMAIN evals[r] :
          InvalidParams(instances[evals[r][i].pd], evals[r][i].k,
                        evals[r][i].neighbors, evals[r][i].cell_size) =>
              evals[r][i].exc # "" /\ ~evals[r][i].touched
    /\ \A r \in Requests :
          (/\ pc[r] = "done" /\ loc[r].pd # 0 /\ req[r].kind = "run"
           /\ InvalidParams(instances[loc[r].pd], req[r].ks[1],
                            req[r].neighbors, req[r].cell_size)) =>
              resp[r].status = 500

\* the request ended because ProjectData could not be constructed
Failed(r) == pc[r] = "done" /\ loc[r].pd = 0 /\ resp[r].status = 500

ConstructionFails == ProjectDataInit(Shapefiles[shp], files).exc # ""

\* C6: on shapefiles that ProjectData cannot be constructed from, every
\* request that ends has ended in that error; and once a request has ended
\* so, the global is unbound, no ProjectData exists, no request has obtained
\* one, run_pipeline has not been called, and no request has been answered
\* with a result.
C6_FailedConstructionBlocksAll ==
    /\ ConstructionFails => \A r \in Requests : pc[r] = "done" => Failed(r)
    /\ (\E r \in Requests : Failed(r)) =>
          /\ project_data = 0 /\ instances = <<>>
          /\ \A q \in Requests :
                /\ evals[q] = <<>> /\ loc[q].pd = 0
                /\ resp[q].status \in {0, 500}

\* every request of the run ended because construction failed
C6_AllFailed == \A r \in Requests : Failed(r)

\* C7: ProjectData is constructed at most once, and every request that
\* called get_project_data holds the same instance.
C7_ConstructedOnce ==
    /\ Len(instances) <= 1
    /\ \A r \in Requests, q \in Requests :
          loc[r].pd # 0 /\ loc[q].pd # 0 => loc[r].pd = loc[q].pd

Constructing == \E r \in Requests : GpdInit(r)

\* C8 as stated: constructing ProjectData creates or modifies no file of the
\* output directory.
C8_ConstructionWritesNothing == [][Constructing => files' = files]_vars

\* C8, amended: constructing ProjectData changes no file the output directory
\* holds, creates no file but bounds.json, and creates nothing when it fails.
C8_ConstructionKeepsFiles ==
    [][Constructing =>
          /\ \A n \in DOMAIN files : n \in DOMAIN files' /\ files'[n] = files[n]
          /\ DOMAIN files' \subseteq DOMAIN files \cup {BoundsJson}
          /\ instances' = instances => files' = files]_vars

\* a ProjectData was constructed beside a bounds.json of other shapefiles,
\* which is still as it was
C8_ConstructedBesideStale ==
    /\ instances # <<>>
    /\ BoundsJson \in DOMAIN files
    /\ files[BoundsJson] = StaleBounds
    /\ bounds_ll(instances[1]) # StaleBounds

\* C9: for every extent and every cell_size > 0, the grid has width >= 1 and
\* height >= 1, reaches maxx and miny, and has no more columns or rows than
\* that needs.
C9_GridCoversExtent ==
    gridIn.phase # "new" =>
        /\ gridOut.width >= 1 /\ gridOut.height >= 1
        /\ gridIn.extent[1] + gridOut.width * gridIn.cell_size >= gridIn.extent[3]
        /\ gridIn.extent[4] - gridOut.height * gridIn.cell_size <= gridIn.extent[2]
        /\ gridOut.width > 1 =>
              gridIn.extent[1] + (gridOut.width - 1) * gridIn.cell_size < gridIn.extent[3]
        /\ gridOut.height > 1 =>
              gridIn.extent[4] - (gridOut.height - 1) * gridIn.cell_size > gridIn.extent[2]

\* a grid of several columns over a width that is no multiple of the cell
\* size, one row high over a zero height
C9_UnevenGrid ==
    /\ gridIn.phase = "grid"
    /\ gridOut.width >= 2 /\ gridOut.height = 1
    /\ (gridIn.extent[3] - gridIn.extent[1]) % gridIn.cell_size # 0
    /\ gridIn.extent[4] = gridIn.extent[2]

\* C10: the transform of rasterize_tract_labels has the cell size of the grid
\* and its top-left origin (minx, maxy), for every grid shape over an extent
\* of positive width and height.
C10_TransformMatchesGrid ==
    (/\ gridIn.phase = "labels"
     /\ gridIn.extent[1] < gridIn.extent[3]
     /\ gridIn.extent[2] < gridIn.extent[4]) =>
        /\ gridOut.tf.cell = gridIn.cell_size
        /\ gridOut.tf.ox2 = 2 * gridIn.extent[1]
        /\ gridOut.tf.oy2 = 2 * gridIn.extent[4]


\* the cells of label l with a finite raster value
FiniteCells(raster, labels, l) ==
    UNION {{<<r, c>> : c \in {d \in DOMAIN labels[r] :
                                 labels[r][d] = l /\ IsFinite(raster[r][d])}} :
           r \in DOMAIN labels}

\* the sum of the finite raster values under label l, row by row
MaskedSum(raster, labels, l) ==
    FSum([r \in DOMAIN raster |->
            FSum([c \in DOMAIN raster[r] |->
                    IF labels[r][c] = l /\ IsFinite(raster[r][c])
                    THEN raster[r][c] ELSE FInt(0)])])

\* C11: for every raster and label grid of one shape, the keys of the map
\* zonal_means returns are exactly the ids of the labels with at least one
\* finite cell, and the value of each is the sum of the finite raster values
\* under the label divided by their count.
C11_ZonalMeansExact ==
    gridIn.phase = "done" =>
        /\ DOMAIN gridOut =
              {ZoneIds[l] : l \in {m \in DOMAIN ZoneIds :
                                     FiniteCells(gridIn.raster, gridIn.labels, m) # {}}}
        /\ \A l \in DOMAIN ZoneIds :
              FiniteCells(gridIn.raster, gridIn.labels, l) # {} =>
                  gridOut[ZoneIds[l]] =
                      FDiv(MaskedSum(gridIn.raster, gridIn.labels, l),
                           FInt(Cardinality(FiniteCells(gridIn.raster, gridIn.labels, l))))

\* zone A has the mean 2 of two finite cells, zone B has a cell and no finite
\* one and is absent
C11_OneZoneAbsent ==
    /\ gridIn.phase = "done"
    /\ gridOut = [g \in {"A"} |-> FInt(2)]
    /\ \E r \in DOMAIN gridIn.labels : \E c \in DOMAIN gridIn.labels[r] :
          gridIn.labels[r][c] = 2


\* the table of the recorded call e: one row per tract
TableOfEval(e) ==
    TableRows(instances[e.pd],
              zonal_means(instances[e.pd], GridOfEval(e).raster,
                          GridOfEval(e).xs, GridOfEval(e).ys))

\* the rows with a finite zonal mean and a finite rate
FinitePairs(rows) ==
    SelectSeq2(rows, [i \in DOMAIN rows |->
                        IsFinite(rows[i].mean_nitrate) /\ IsFinite(rows[i].canrate)])

FittedOn(ols, pairs, fit) ==
    /\ ols.n = Len(pairs)
    /\ ols.slope = fit.slope /\ ols.intercept = fit.intercept /\ ols.r2 = fit.r2

\* C12: the regression of every evaluation that returns is the fit on exactly
\* the tracts with both a finite zonal mean and a finite rate, and n is their
\* number.
C12_FitOnFinitePairs ==
    \A r \in Requests : \A i \in DOMAIN evals[r] :
        evals[r][i].exc = "" =>
            FittedOn(evals[r][i].out.ols, FinitePairs(TableOfEval(evals[r][i])),
                     FitOf(FinitePairs(TableOfEval(evals[r][i]))))


\* the classification by the largest finite rate of the rows
UnitsOf(rows) ==
    LET finite == {i \in DOMAIN rows : IsFinite(rows[i].canrate)}
    IN  IF finite # {} /\ \A i \in finite : FLe(rows[i].canrate, FInt(1))
        THEN <<"proportion", 100000>> ELSE <<"raw", 1>>

UnitsFrom(ols, rows, fit) ==
    /\ <<ols.rate_units, ols.rate_scale>> = UnitsOf(rows)
    /\ ols.slope = fit.slope /\ ols.intercept = fit.intercept /\ ols.r2 = fit.r2
    /\ ols.p_value = fit.p_value /\ ols.ci = fit.ci

\* C13: in every result, of run_pipeline and of the cache-hit path, rate_units
\* is 'proportion' with rate_scale 100000 exactly when the largest finite rate
\* over all tracts is <= 1.0, and 'raw' with rate_scale 1 otherwise; slope,
\* intercept, r2, p_value and the CI are those of the fit on the rates as
\* loaded.
C13_UnitsByLargestFiniteRate ==
    /\ \A r \in Requests : \A i \in DOMAIN evals[r] :
          evals[r][i].exc = "" =>
              UnitsFrom(evals[r][i].out.ols, TableOfEval(evals[r][i]),
                        FitOf(DropNA(TableOfEval(evals[r][i]))))
    /\ \A r \in Requests :
          AnsweredFromCache(r) /\ resp[r].status = 200 =>
              UnitsFrom(resp[r].body.ols, files[CsvName(req[r].ks[1])],
                        CachedFitOf(DropNA(files[CsvName(req[r].ks[1])])))


\* a well feature without a usable value or without a coordinate
DefectiveWell(f) == f.empty \/ f.v \in {None, NotNumeric, NaN, PosInf, <<-1, 0>>}

\* a tract feature without an id in either attribute
DefectiveTract(f) == f.GEOID10 = "" /\ f.GEOID = ""

SoundWells(feats) == LET ok(f) == ~DefectiveWell(f) IN SelectSeq(feats, ok)

SoundTracts(feats) == LET ok(f) == ~DefectiveTract(f) IN SelectSeq(feats, ok)

LoadedAre(pd, ws, ts) ==
    /\ pd.wells_vals = [i \in DOMAIN ws |-> ws[i].v]
    /\ pd.wells_xy_m = [i \in DOMAIN ws |-> <<ws[i].x * Scale, ws[i].y * Scale>>]
    /\ pd.tract_ids = [i \in DOMAIN ts |->
                          IF ts[i].GEOID10 # "" THEN ts[i].GEOID10 ELSE ts[i].GEOID]
    /\ pd.tract_polys_m = [i \in DOMAIN ts |-> [j \in 1..4 |-> ts[i].rect[j] * Scale]]

LoadedFrom(out, ws, ts) ==
    IF ws = <<>> \/ ts = <<>> THEN out.exc = "RuntimeError"
    ELSE out.exc = "" /\ LoadedAre(out.pd, ws, ts)

\* C14: for every sequence of well features and of tract features,
\* construction fails exactly when no well feature has a finite numeric value
\* or no tract feature has an id, and otherwise loads exactly the features
\* without such a defect, in input order.
C14_LoadSkipsDefective ==
    gridIn.phase = "done" =>
        LoadedFrom(gridOut, SoundWells(gridIn.wells), SoundTracts(gridIn.tracts))

C14_DefectiveSkipped ==
    /\ gridIn.phase = "done" /\ gridOut.exc = ""
    /\ Len(gridIn.wells) = 3 /\ Len(gridOut.pd.wells_vals) = 2
    /\ gridIn.wells[2].v = PosInf
    /\ Len(gridIn.tracts) = 3 /\ gridOut.pd.tract_ids = <<"A", "B">>
    /\ DefectiveTract(gridIn.tracts[2])


\* run_pipeline(k, neighbors, cell_size) of request r on an output directory
\* without files
FreshRun(r) ==
    run_pipeline(instances[loc[r].pd], Shapefiles[shp], req[r].ks[1],
                 req[r].neighbors, req[r].cell_size, TRUE, <<>>)

RepliedAs(rs, fresh) ==
    IF fresh.exc # "" THEN rs.status = 500
    ELSE /\ rs.status = 200
         /\ rs.body.ols = fresh.out.ols
         /\ rs.body.bounds = fresh.out.bounds

\* C15: whatever requests came before, the response to /api/run carries the
\* regression result and the bounds that run_pipeline with the requested k,
\* neighbors and cell_size returns on the loaded data, on the cache-hit path
\* as on the heavy path.
C15_RunReplyIsFreshRun ==
    \A r \in Requests :
        req[r].kind = "run" /\ pc[r] = "done" /\ loc[r].pd # 0 =>
            RepliedAs(resp[r], FreshRun(r))


\* a value of the table and a value of the export are the same value, or are
\* both missing
SameValue(a, b) == a = b \/ (IsNA(a) /\ IsNA(b))

ExportMatches(pd, gj, csv) ==
    /\ Len(gj) = Len(pd.tract_ids)
    /\ \A z \in DOMAIN pd.tract_ids :
          \E j \in DOMAIN gj : gj[j].GEOID10 = pd.tract_ids[z]
    /\ \A j \in DOMAIN gj : \A i \in DOMAIN csv :
          gj[j].GEOID10 = csv[i].GEOID10 =>
              /\ SameValue(gj[j].mean_nitrate, csv[i].mean_nitrate)
              /\ SameValue(gj[j].canrate, csv[i].canrate)

\* C16: after every run_pipeline call that wrote its artifacts, the GeoJSON
\* file has one feature for every entry of tract_ids, also for a tract whose
\* id came from the GEOID attribute, and the mean_nitrate and canrate of each
\* feature are those of the CSV row with the same id.
C16_ExportHasEveryZone ==
    \A r \in Requests : \A i \in DOMAIN evals[r] :
        evals[r][i].exc = "" /\ evals[r][i].write_outputs =>
            ExportMatches(instances[evals[r][i].pd],
                          files[evals[r][i].out.geojson],
                          files[evals[r][i].out.csv])

=============================================================================
